---------------------------- MODULE Spec2Model ----------------------------
(* External merge sort of a file of 4-byte integers (src/main.cpp) built on *)
(* tp::UnboundedBlockingQueue (src/unnamed/part_000, included by main.cpp   *)
(* as blocking_queue.hpp).                                                  *)
(*                                                                          *)
(* The specifications share the queue:                                      *)
(*   Spec         the pipeline main() runs: SortBatchFiles, the detached    *)
(*                sorter threads, MergeBatchFiles and the detached merge    *)
(*                threads;                                                  *)
(*   LenSpec      Spec on inputs whose integers are all 0;                  *)
(*   LenFairSpec  LenSpec under fair scheduling;                            *)
(*   MergeSpec    MergeRoutine alone on two complete ascending runs;        *)
(*   QSpec        client threads calling Put, Take, Close and Cancel on one *)
(*                queue in any interleaving;                                *)
(*   QFairSpec    QSpec under fair scheduling.                              *)
(*                                                                          *)
(* Every member function of the queue runs under mutex_ from its first to   *)
(* its last statement, except that Take releases the mutex while it waits   *)
(* on buffer_empty_; a critical section is therefore one atomic step.       *)
(* File names are std::to_string of an integer (injective), so a file is    *)
(* keyed by that integer.                                                   *)
EXTENDS Integers, Sequences, FiniteSets, TLC

\* ---------------------------------------------------------------- bounds
MaxLen == 3          \* the input holds 0..MaxLen integers
MaxBatch == 2        \* batch_size (argv[2]) ranges over 1..MaxBatch
MaxVal == 1          \* the integers of the input range over 0..MaxVal
NumClients == 3      \* QSpec: client threads 1..NumClients
MaxPuts == 3         \* QSpec: the values put are 1..MaxPuts, each put once

\* ------------------------------------------------------ program constants
SizeofInt == 4
MainThread == 0

VARIABLES
    \* tp::UnboundedBlockingQueue
    buffer_,          \* std::deque<T> buffer_
    is_closed_,       \* bool is_closed_
    waitset,          \* the threads blocked in buffer_empty_.wait(lock)
    \* history of the queue (written by Put and Take, read by no code)
    accepted,         \* the values Put pushed, in push order
    removed,          \* the values Take popped, in pop order
    rejected,         \* the values Put refused
    \* main(), SortBatchFiles, MergeBatchFiles
    input,            \* the integers of the input file
    batch_size,
    opc,              \* where the main thread is
    i,                \* SortBatchFiles: loop index
    merge_file_count, \* SortBatchFiles: the count it returns
    tasks_count,      \* MergeBatchFiles: parameter, decremented by the loop
    id,               \* MergeBatchFiles: int id
    filename1,        \* MergeBatchFiles: the first Take of the MergeTask being built
    output_file,      \* main: the name MergeBatchFiles returned, as an optional
    sorters,          \* the detached sorter threads, by task.offset
    mergers,          \* the detached merge threads, by task.id
    files,            \* the run files, by name
    \* QSpec: the client threads
    qpc,              \* "idle", or "taking" inside a Take call
    ret,              \* the optional the thread's last Take returned
    putret,           \* the bool the thread's last Put returned
    nextval,          \* the next value a client puts
    \* history of QSpec (the last three are written under QFairSpec only)
    cancelled,        \* Cancel has run
    atClose,          \* <<buffer_>> as the first Close or Cancel found it
    removedAtClose,   \* Len(removed) at that moment
    blockedAtCancel,  \* the threads inside Take when the first Cancel ran
    racedAtCancel,    \* those of them a notify had woken, items being buffered
    blockedAtClose,   \* the threads inside Take when the first Close or Cancel ran
    blockedAtPut,     \* the threads inside Take at the first Put that found the
                      \* buffer empty and a thread inside Take, less those that
                      \* have returned since
    servedSince       \* those of them whose Take has returned an item since

qvars == <<buffer_, is_closed_, waitset>>
hvars == <<accepted, removed, rejected>>
pvars == <<input, batch_size, opc, i, merge_file_count, tasks_count, id,
           filename1, output_file, sorters, mergers, files>>
wvars == <<blockedAtClose, blockedAtPut, servedSince>>
cvars == <<qpc, ret, putret, nextval, cancelled, atClose, removedAtClose,
           blockedAtCancel, racedAtCancel, wvars>>
vars == <<qvars, hvars, pvars, cvars>>

\* std::optional<T>: <<>> is std::nullopt, <<v>> holds v
nullopt == <<>>
Some(v) == <<v>>

Range(s) == {s[k] : k \in 1..Len(s)}
IsPrefix(s, t) == Len(s) <= Len(t) /\ SubSeq(t, 1, Len(s)) = s

\* ------------------------------------------------ UnboundedBlockingQueue

\* buffer_empty_.notify_one(): one of the blocked threads, if any, leaves the wait
notify_one ==
    IF waitset = {} THEN waitset' = waitset
    ELSE \E w \in waitset : waitset' = waitset \ {w}

\* buffer_empty_.notify_all()
notify_all == waitset' = {}

\* mutant of PutReturns: Put does not test is_closed_
PutReturnsIgnoringClosed == TRUE

\* what Put returns, from the state it is called in: false if (is_closed_)
PutReturns == ~is_closed_

\* mutant of Put: push_front in place of push_back
PutPushFront(value) ==
    /\ IF PutReturns
       THEN /\ buffer_' = <<value>> \o buffer_
            /\ notify_one
            /\ accepted' = Append(accepted, value)
            /\ UNCHANGED rejected
       ELSE /\ rejected' = rejected \cup {value}
            /\ UNCHANGED <<buffer_, waitset, accepted>>
    /\ UNCHANGED <<is_closed_, removed>>

\* mutant of Put: buffer_empty_.notify_one() is missing
PutNoNotify(value) ==
    /\ IF PutReturns
       THEN /\ buffer_' = Append(buffer_, value)
            /\ UNCHANGED waitset
            /\ accepted' = Append(accepted, value)
            /\ UNCHANGED rejected
       ELSE /\ rejected' = rejected \cup {value}
            /\ UNCHANGED <<buffer_, waitset, accepted>>
    /\ UNCHANGED <<is_closed_, removed>>

\* bool Put(T value)
Put(value) ==
    /\ IF PutReturns
       THEN /\ buffer_' = Append(buffer_, value)
            /\ notify_one
            /\ accepted' = Append(accepted, value)
            /\ UNCHANGED rejected
       ELSE /\ rejected' = rejected \cup {value}
            /\ UNCHANGED <<buffer_, waitset, accepted>>
    /\ UNCHANGED <<is_closed_, removed>>

\* mutant of TakeWaits: the loop condition does not test is_closed_
TakeWaitsIgnoringClosed == buffer_ = <<>>

\* mutant of TakeWaits: Take never waits
TakeWaitsNever == FALSE

\* Take: the condition of the while loop around buffer_empty_.wait(lock)
TakeWaits == buffer_ = <<>> /\ ~is_closed_

\* what Take returns when it does not wait, from the state it runs in
TakeReturns == IF buffer_ = <<>> THEN nullopt ELSE Some(Head(buffer_))

\* mutant of Take: buffer_.pop_front() is missing
TakeNoPop(t) ==
    /\ t \notin waitset
    /\ IF TakeWaits
       THEN /\ waitset' = waitset \cup {t}
            /\ UNCHANGED <<buffer_, removed>>
       ELSE IF buffer_ = <<>>
       THEN UNCHANGED <<buffer_, waitset, removed>>
       ELSE /\ removed' = Append(removed, Head(buffer_))
            /\ UNCHANGED <<buffer_, waitset>>
    /\ UNCHANGED <<is_closed_, accepted, rejected>>

\* std::optional<T> Take(), one pass by thread t: entered, or woken from the
\* wait with the mutex re-acquired, it tests the loop condition and either
\* waits (again) or returns
Take(t) ==
    /\ t \notin waitset
    /\ IF TakeWaits
       THEN /\ waitset' = waitset \cup {t}
            /\ UNCHANGED <<buffer_, removed>>
       ELSE IF buffer_ = <<>>
       THEN UNCHANGED <<buffer_, waitset, removed>>
       ELSE /\ buffer_' = Tail(buffer_)
            /\ removed' = Append(removed, Head(buffer_))
            /\ UNCHANGED waitset
    /\ UNCHANGED <<is_closed_, accepted, rejected>>

\* mutant of CloseImpl: the buffer is never cleared
CloseImplNoClear(clear) ==
    /\ is_closed_' = TRUE
    /\ buffer_' = buffer_
    /\ notify_all
    /\ UNCHANGED hvars

\* mutant of CloseImpl: the flag is toggled in place of set
CloseImplToggles(clear) ==
    /\ is_closed_' = ~is_closed_
    /\ buffer_' = IF clear THEN <<>> ELSE buffer_
    /\ notify_all
    /\ UNCHANGED hvars

\* mutant of CloseImpl: notify_one in place of notify_all
CloseImplNotifyOne(clear) ==
    /\ is_closed_' = TRUE
    /\ buffer_' = IF clear THEN <<>> ELSE buffer_
    /\ notify_one
    /\ UNCHANGED hvars

\* void CloseImpl(bool clear)
CloseImpl(clear) ==
    /\ is_closed_' = TRUE
    /\ buffer_' = IF clear THEN <<>> ELSE buffer_
    /\ notify_all
    /\ UNCHANGED hvars

\* std::condition_variable::wait may return without a notification
Wakeup(t) ==
    /\ t \in waitset
    /\ waitset' = waitset \ {t}
    /\ UNCHANGED <<buffer_, is_closed_>>
    /\ UNCHANGED hvars

\* ------------------------------------------------------------- run files

\* A run file is text: std::ostream_iterator<int>(ostr, " ") and
\* ostr << value << " " write each integer followed by one space. The
\* std::ofstream buffers what it is given; the file holds all of it only once
\* the stream is destroyed (closed = TRUE). `data` is what the stream was given.
NewFile(data) == [data |-> data, closed |-> FALSE]

\* What a reader that opens file f finds: everything once the writer has closed
\* it; before that, whatever part the stream buffer happened to flush, which may
\* end right after an integer (sp = FALSE) or after its space (sp = TRUE).
Views(f) ==
    IF files[f].closed
    THEN {[toks |-> files[f].data, sp |-> TRUE]}
    ELSE {[toks |-> SubSeq(files[f].data, 1, k), sp |-> b] :
              k \in 0..Len(files[f].data), b \in BOOLEAN}

\* std::ifstream reading a view: pos integers consumed, eofbit, the int variable
OpenStream == [pos |-> 0, eof |-> FALSE, value |-> 0]

\* istr >> value: skips white space and parses an integer. With nothing but
\* white space left it sets eofbit (and failbit) and stores nothing; parsing the
\* last integer of a file that does not end in a space runs into the end of the
\* file and sets eofbit although the integer is stored.
\* mutant of Extract: eofbit is set by parsing the last integer even when a
\* space follows it
ExtractEofAtLast(view, s) ==
    IF s.eof THEN s
    ELSE IF s.pos >= Len(view.toks) THEN [s EXCEPT !.eof = TRUE]
    ELSE [pos |-> s.pos + 1,
          eof |-> (s.pos + 1 = Len(view.toks)),
          value |-> view.toks[s.pos + 1]]

Extract(view, s) ==
    IF s.eof THEN s
    ELSE IF s.pos >= Len(view.toks) THEN [s EXCEPT !.eof = TRUE]
    ELSE [pos |-> s.pos + 1,
          eof |-> (s.pos + 1 = Len(view.toks) /\ ~view.sp),
          value |-> view.toks[s.pos + 1]]

\* ---------------------------------------------------------- SorterRoutine

\* the read loop: for (i = 0; i < task.max_numbers && !istr.eof(); i++), over
\* the binary input `data` from element `pos`; a read at the end of the file
\* sets eofbit, leaves number = 0, and the 0 is pushed all the same
RECURSIVE ReadLoop(_, _, _, _, _, _)
ReadLoop(data, max_numbers, k, pos, eof, numbers) ==
    IF k < max_numbers /\ ~eof
    THEN IF pos < Len(data)
         THEN ReadLoop(data, max_numbers, k + 1, pos + 1, FALSE,
                       Append(numbers, data[pos + 1]))
         ELSE ReadLoop(data, max_numbers, k + 1, pos, TRUE, Append(numbers, 0))
    ELSE numbers

\* std::sort(numbers_for_sort.begin(), numbers_for_sort.end()), as an insertion sort
RECURSIVE InsertSorted(_, _)
InsertSorted(s, x) ==
    IF s = <<>> THEN <<x>>
    ELSE IF x <= Head(s) THEN <<x>> \o s
    ELSE <<Head(s)>> \o InsertSorted(Tail(s), x)

RECURSIVE StdSort(_)
StdSort(s) == IF s = <<>> THEN <<>> ELSE InsertSorted(StdSort(Tail(s)), Head(s))

\* numbers_for_sort after the sort, for the task at byte offset `offset`
SortedNumbers(offset) ==
    StdSort(ReadLoop(input, batch_size, 0, offset \div SizeofInt, FALSE, <<>>))

\* SorterRoutine down to its last statement: opens the output file, reads,
\* sorts and, if there are numbers, hands them to ostr and puts the file's
\* name. Nothing before the Put is visible to another thread (the name is not
\* known to any), so the body is one step.
SorterRoutine(w) ==
    /\ sorters[w] = "start"
    /\ files' = (w :> NewFile(SortedNumbers(w))) @@ files
    /\ IF SortedNumbers(w) # <<>>
       THEN Put(w)
       ELSE UNCHANGED <<qvars, hvars>>
    /\ sorters' = [sorters EXCEPT ![w] = "exit"]
    /\ UNCHANGED cvars
    /\ UNCHANGED <<input, batch_size, opc, i, merge_file_count, tasks_count, id,
                   filename1, output_file, mergers>>

\* the closing brace: ostr is destroyed, which flushes and closes the file
SorterExit(w) ==
    /\ sorters[w] = "exit"
    /\ files' = [files EXCEPT ![w].closed = TRUE]
    /\ sorters' = [sorters EXCEPT ![w] = "done"]
    /\ UNCHANGED <<qvars, hvars, cvars>>
    /\ UNCHANGED <<input, batch_size, opc, i, merge_file_count, tasks_count, id,
                   filename1, output_file, mergers>>

\* ----------------------------------------------------------- MergeRoutine

\* while (!istr1.eof() && !istr2.eof()) { ... }
RECURSIVE MergeBoth(_, _, _, _, _)
MergeBoth(v1, v2, s1, s2, out) ==
    IF ~s1.eof /\ ~s2.eof
    THEN IF s1.value < s2.value
         THEN MergeBoth(v1, v2, Extract(v1, s1), s2, Append(out, s1.value))
         ELSE MergeBoth(v1, v2, s1, Extract(v2, s2), Append(out, s2.value))
    ELSE [s1 |-> s1, s2 |-> s2, out |-> out]

\* while (!istr.eof()) { ostr << value << " "; istr >> value; }
RECURSIVE Drain(_, _, _)
Drain(v, s, out) ==
    IF ~s.eof THEN Drain(v, Extract(v, s), Append(out, s.value)) ELSE out

\* everything MergeRoutine hands to ostr, reading views v1 and v2
MergeOutput(v1, v2) ==
    LET r == MergeBoth(v1, v2, Extract(v1, OpenStream), Extract(v2, OpenStream), <<>>)
    IN  Drain(v2, r.s2, Drain(v1, r.s1, r.out))

\* MergeRoutine down to its last statement: opens the three files, merges what
\* it finds in the two inputs and puts the output file's name. The inputs are
\* read as they are when the routine runs: a writer that has not closed its
\* file yet may close it later, and a view before the close covers every part
\* of the file, the whole included.
MergeRoutine(m) ==
    /\ mergers[m].pc = "start"
    /\ \E v1 \in Views(mergers[m].filename1), v2 \in Views(mergers[m].filename2) :
           files' = (m :> NewFile(MergeOutput(v1, v2))) @@ files
    /\ Put(m)
    /\ mergers' = [mergers EXCEPT ![m].pc = "exit"]
    /\ UNCHANGED cvars
    /\ UNCHANGED <<input, batch_size, opc, i, merge_file_count, tasks_count, id,
                   filename1, output_file, sorters>>

\* the closing brace: ostr is destroyed, which flushes and closes the file
MergeRoutineExit(m) ==
    /\ mergers[m].pc = "exit"
    /\ files' = [files EXCEPT ![m].closed = TRUE]
    /\ mergers' = [mergers EXCEPT ![m].pc = "done"]
    /\ UNCHANGED <<qvars, hvars, cvars>>
    /\ UNCHANGED <<input, batch_size, opc, i, merge_file_count, tasks_count, id,
                   filename1, output_file, sorters>>

\* ------------------------------------------------- SortBatchFiles, main

\* all sequences over S of length 0..n
SeqsUpTo(S, n) == UNION {[1..k -> S] : k \in 0..n}

\* std::filesystem::file_size(filename) and batch_size * sizeof(int)
file_size == Len(input) * SizeofInt
batch_bytes == batch_size * SizeofInt

\* mutant of SortLoopGoesOn: the break tests offset > file_size
SortLoopBreaksLate ==
    /\ i < file_size \div batch_bytes + 1
    /\ ~(i * batch_bytes > file_size)

\* mutant of SortLoopGoesOn: the loop bound is file_size / batch_bytes
SortLoopNoPlusOne ==
    /\ i < file_size \div batch_bytes
    /\ ~(i * batch_bytes >= file_size)

\* the loop of SortBatchFiles goes on: i < file_size / batch_bytes + 1, and the
\* task's offset is not at or beyond the end of the file (else: break)
SortLoopGoesOn ==
    /\ i < file_size \div batch_bytes + 1
    /\ ~(i * batch_bytes >= file_size)

\* while (tasks_count-- > 1): the test uses the value before the decrement.
\* tasks_count is a size_t: decrementing 0 wraps to SIZE_MAX, which the loop has
\* left by then and nothing reads; the model keeps 0.
\* The test is taken with the step that reaches the loop head: entered with
\* count n, the main thread goes on to the first Take or to the final one.
DecrementedTwice(n) == IF n < 2 THEN 0 ELSE n - 2   \* mutant of Decremented

MergeLoopEntersAboveTwo(n) == n > 2   \* mutant of MergeLoopEnters
MergeLoopEntersAboveZero(n) == n > 0  \* mutant of MergeLoopEnters
MergeLoopEnters(n) == n > 1
AfterTest(n) == IF MergeLoopEnters(n) THEN "take1" ELSE "final"
Decremented(n) == IF n = 0 THEN 0 ELSE n - 1

\* one iteration of the loop of SortBatchFiles that starts a sorter thread
SortBatchFilesSpawn ==
    /\ opc = "sort"
    /\ SortLoopGoesOn
    /\ merge_file_count' = merge_file_count + 1
    /\ sorters' = (i * batch_bytes :> "start") @@ sorters
    /\ i' = i + 1
    /\ UNCHANGED <<qvars, hvars, cvars>>
    /\ UNCHANGED <<input, batch_size, opc, tasks_count, id, filename1,
                   output_file, mergers, files>>

\* SortBatchFiles returns merge_file_count and main calls MergeBatchFiles
\* with it: tasks_count is the count, int id = -1, and the loop test is taken
SortBatchFilesReturn ==
    /\ opc = "sort"
    /\ ~SortLoopGoesOn
    /\ tasks_count' = Decremented(merge_file_count)
    /\ id' = -1
    /\ opc' = AfterTest(merge_file_count)
    /\ UNCHANGED <<qvars, hvars, cvars>>
    /\ UNCHANGED <<input, batch_size, i, merge_file_count, filename1,
                   output_file, sorters, mergers, files>>

\* -------------------------------------------------------- MergeBatchFiles

\* the first *sorted_parts.Take() of the braced initialiser of thread_task
\* (initialiser clauses are evaluated left to right); dereferencing an empty
\* optional is undefined: the main thread is then at "ub"
MergeBatchFilesTake1 ==
    /\ opc = "take1"
    /\ Take(MainThread)
    /\ IF TakeWaits THEN UNCHANGED <<opc, filename1>>
       ELSE IF TakeReturns = nullopt THEN opc' = "ub" /\ UNCHANGED filename1
       ELSE opc' = "take2" /\ filename1' = TakeReturns[1]
    /\ UNCHANGED cvars
    /\ UNCHANGED <<input, batch_size, i, merge_file_count, tasks_count, id,
                   output_file, sorters, mergers, files>>

\* mutant of MergeBatchFilesTake2: the first Take's result is used twice
MergeBatchFilesTake2Same ==
    /\ opc = "take2"
    /\ id' = id - 1
    /\ mergers' = (id - 1 :> [pc |-> "start", filename1 |-> filename1,
                              filename2 |-> filename1]) @@ mergers
    /\ opc' = AfterTest(tasks_count)
    /\ tasks_count' = Decremented(tasks_count)
    /\ UNCHANGED <<qvars, hvars, cvars>>
    /\ UNCHANGED <<input, batch_size, i, merge_file_count, filename1,
                   output_file, sorters, files>>

\* mutant of MergeBatchFilesTake2: the task gets id - 1 but id is not decremented
MergeBatchFilesTake2SameId ==
    /\ opc = "take2"
    /\ Take(MainThread)
    /\ IF TakeWaits THEN UNCHANGED <<opc, id, mergers>>
       ELSE IF TakeReturns = nullopt THEN opc' = "ub" /\ UNCHANGED <<id, mergers>>
       ELSE /\ id' = id
            /\ mergers' = (id - 1 :> [pc |-> "start", filename1 |-> filename1,
                                      filename2 |-> TakeReturns[1]]) @@ mergers
            /\ opc' = AfterTest(tasks_count)
    /\ tasks_count' = IF TakeWaits \/ TakeReturns = nullopt
                      THEN tasks_count ELSE Decremented(tasks_count)
    /\ UNCHANGED cvars
    /\ UNCHANGED <<input, batch_size, i, merge_file_count, filename1,
                   output_file, sorters, files>>

\* the second *sorted_parts.Take(), then --id, the merge thread is started and
\* detached, and the loop test is taken again
MergeBatchFilesTake2 ==
    /\ opc = "take2"
    /\ Take(MainThread)
    /\ IF TakeWaits THEN UNCHANGED <<opc, id, mergers>>
       ELSE IF TakeReturns = nullopt THEN opc' = "ub" /\ UNCHANGED <<id, mergers>>
       ELSE /\ id' = id - 1
            /\ mergers' = (id - 1 :> [pc |-> "start", filename1 |-> filename1,
                                      filename2 |-> TakeReturns[1]]) @@ mergers
            /\ opc' = AfterTest(tasks_count)
    /\ tasks_count' = IF TakeWaits \/ TakeReturns = nullopt
                      THEN tasks_count ELSE Decremented(tasks_count)
    /\ UNCHANGED cvars
    /\ UNCHANGED <<input, batch_size, i, merge_file_count, filename1,
                   output_file, sorters, files>>

\* return *sorted_parts.Take(); main prints the name and returns
MergeBatchFilesReturn ==
    /\ opc = "final"
    /\ Take(MainThread)
    /\ IF TakeWaits THEN UNCHANGED <<opc, output_file>>
       ELSE IF TakeReturns = nullopt THEN opc' = "ub" /\ UNCHANGED output_file
       ELSE opc' = "done" /\ output_file' = TakeReturns
    /\ UNCHANGED cvars
    /\ UNCHANGED <<input, batch_size, i, merge_file_count, tasks_count, id,
                   filename1, sorters, mergers, files>>

\* the main thread leaves buffer_empty_.wait without a notification
MainWakeup ==
    /\ Wakeup(MainThread)
    /\ UNCHANGED <<pvars, cvars>>

\* ------------------------------------------------------------------- Spec

\* the client threads of QSpec
Clients == 1..NumClients

QueueInit ==
    /\ buffer_ = <<>>
    /\ is_closed_ = FALSE
    /\ waitset = {}
    /\ accepted = <<>>
    /\ removed = <<>>
    /\ rejected = {}

ClientsInit ==
    /\ qpc = [t \in Clients |-> "idle"]
    /\ ret = [t \in Clients |-> nullopt]
    /\ putret = [t \in Clients |-> TRUE]
    /\ nextval = 1
    /\ cancelled = FALSE
    /\ atClose = <<>>
    /\ removedAtClose = 0
    /\ blockedAtCancel = {}
    /\ racedAtCancel = {}
    /\ blockedAtClose = {}
    /\ blockedAtPut = {}
    /\ servedSince = {}

PipelineIdle ==
    /\ opc = "sort"
    /\ i = 0
    /\ merge_file_count = 0
    /\ tasks_count = 0
    /\ id = 0
    /\ filename1 = 0
    /\ output_file = nullopt
    /\ sorters = [w \in {} |-> "start"]
    /\ mergers = [m \in {} |-> "start"]
    /\ files = [f \in {} |-> NewFile(<<>>)]

\* main is entered with a file of 0..MaxLen integers and a batch size
Init ==
    /\ QueueInit
    /\ ClientsInit
    /\ PipelineIdle
    /\ input \in SeqsUpTo(0..MaxVal, MaxLen)
    /\ batch_size \in 1..MaxBatch

Next ==
    \/ SortBatchFilesSpawn
    \/ SortBatchFilesReturn
    \/ MergeBatchFilesTake1
    \/ MergeBatchFilesTake2
    \/ MergeBatchFilesReturn
    \/ MainWakeup
    \/ \E w \in DOMAIN sorters : SorterRoutine(w)
    \/ \E w \in DOMAIN sorters : SorterExit(w)
    \/ \E m \in DOMAIN mergers : MergeRoutine(m)
    \/ \E m \in DOMAIN mergers : MergeRoutineExit(m)

Spec == Init /\ [][Next]_vars

\* The pipeline on a file of 0..MaxLen integers that are all 0. No condition
\* of main, SortBatchFiles, MergeBatchFiles, the queue or the two routines'
\* Put reads an integer of the input (only std::sort and the comparison
\* value1 < value2 do), so the threads, the queue and the run identifiers
\* behave under LenSpec as under Spec.
LenInit ==
    /\ QueueInit
    /\ ClientsInit
    /\ PipelineIdle
    /\ input \in SeqsUpTo({0}, MaxLen)
    /\ batch_size \in 1..MaxBatch

LenSpec == LenInit /\ [][Next]_vars

\* ------------------------------------------------------------------ QSpec
\* Client threads use one queue: each is idle or inside a Take call, and an
\* idle one may call Put, Take, Close or Cancel.

\* a client calls Put with a value not put before
PutCall(t) ==
    /\ qpc[t] = "idle"
    /\ nextval <= MaxPuts
    /\ Put(nextval)
    /\ putret' = [putret EXCEPT ![t] = PutReturns]
    /\ nextval' = nextval + 1
    /\ UNCHANGED <<qpc, ret, cancelled, atClose, removedAtClose,
                   blockedAtCancel, racedAtCancel>>
    /\ UNCHANGED pvars

ClientPut(t) == PutCall(t) /\ UNCHANGED wvars

\* a client calls Take, or goes on with the Take it was woken in
TakeCall(t) ==
    /\ Take(t)
    /\ IF TakeWaits
       THEN qpc' = [qpc EXCEPT ![t] = "taking"] /\ UNCHANGED ret
       ELSE /\ qpc' = [qpc EXCEPT ![t] = "idle"]
            /\ ret' = [ret EXCEPT ![t] = TakeReturns]
    /\ UNCHANGED <<putret, nextval, cancelled, atClose, removedAtClose,
                   blockedAtCancel, racedAtCancel>>
    /\ UNCHANGED pvars

ClientTake(t) == TakeCall(t) /\ UNCHANGED wvars

\* a client calls Close
CloseCall(t) ==
    /\ qpc[t] = "idle"
    /\ CloseImpl(FALSE)
    /\ IF is_closed_ THEN UNCHANGED <<atClose, removedAtClose>>
       ELSE atClose' = buffer_ /\ removedAtClose' = Len(removed)
    /\ UNCHANGED <<qpc, ret, putret, nextval, cancelled, blockedAtCancel,
                   racedAtCancel>>
    /\ UNCHANGED pvars

ClientClose(t) == CloseCall(t) /\ UNCHANGED wvars

\* a client calls Cancel
CancelCall(t) ==
    /\ qpc[t] = "idle"
    /\ CloseImpl(TRUE)
    /\ cancelled' = TRUE
    /\ IF is_closed_ THEN UNCHANGED <<atClose, removedAtClose>>
       ELSE atClose' = buffer_ /\ removedAtClose' = Len(removed)
    /\ IF cancelled THEN UNCHANGED <<blockedAtCancel, racedAtCancel>>
       ELSE /\ blockedAtCancel' = {u \in Clients : qpc[u] = "taking"}
            /\ racedAtCancel' =
                   IF buffer_ = <<>> THEN {}
                   ELSE {u \in Clients : qpc[u] = "taking" /\ u \notin waitset}
    /\ UNCHANGED <<qpc, ret, putret, nextval>>
    /\ UNCHANGED pvars

ClientCancel(t) == CancelCall(t) /\ UNCHANGED wvars

\* a client leaves buffer_empty_.wait without a notification
ClientWakeup(t) ==
    /\ Wakeup(t)
    /\ UNCHANGED <<pvars, cvars>>

QInit ==
    /\ QueueInit
    /\ ClientsInit
    /\ PipelineIdle
    /\ input = <<>>
    /\ batch_size = 1

QNext ==
    \E t \in Clients :
        \/ ClientPut(t)
        \/ ClientTake(t)
        \/ ClientClose(t)
        \/ ClientCancel(t)
        \/ ClientWakeup(t)

QSpec == QInit /\ [][QNext]_vars

\* ----------------------------------------------------------------- claims

Count(v, s) == Cardinality({k \in 1..Len(s) : s[k] = v})
IsAscending(s) == \A k \in 1..(Len(s) - 1) : s[k] <= s[k + 1]
NoDuplicates(s) == \A a, b \in 1..Len(s) : s[a] = s[b] => a = b

\* all that the stream of the returned run was given (the whole file once the
\* writer has closed it)
TerminalRun == files[output_file[1]].data

\* C1: when the orchestrator has returned, the run it names holds exactly the
\* input multiset, in ascending order.
C1_TerminalRunIsSortedInput ==
    opc = "done" =>
        /\ IsAscending(TerminalRun)
        /\ Len(TerminalRun) = Len(input)
        /\ \A v \in Range(input) \cup Range(TerminalRun) :
               Count(v, TerminalRun) = Count(v, input)

\* C2: every identifier put into the queue is removed by exactly one Take: no
\* identifier is removed twice, and when the final Take has returned the
\* 2N - 1 identifiers put (N sort runs, N - 1 merge runs) have all been removed
\* and the queue is empty.
C2_EachIdentifierTakenOnce ==
    /\ NoDuplicates(removed)
    /\ opc = "done" =>
           /\ buffer_ = <<>>
           /\ removed = accepted
           /\ Len(accepted) = 2 * merge_file_count - 1
           /\ Range(accepted) = DOMAIN sorters \cup DOMAIN mergers

\* C2 witness: three sort runs and two merge runs, all taken, the final Take returned
C2_Witness ==
    /\ opc = "done"
    /\ merge_file_count = 3
    /\ Len(removed) = 5
    /\ buffer_ = <<>>

\* C3: a run is complete on storage from the moment its identifier is put: the
\* file of every identifier the queue accepted holds all its writer gave it.
C3_PublishedRunIsComplete ==
    \A f \in Range(accepted) : files[f].closed

\* C4: with N >= 1 sort workers spawned, when the orchestrator returns it has
\* spawned exactly N - 1 merge workers and returns one identifier; with N = 1
\* that is the identifier the single sort worker put. At no time are there
\* more than N - 1 merge workers.
C4_MergesAreRunsMinusOne ==
    /\ opc # "sort" =>
           /\ Cardinality(DOMAIN sorters) = merge_file_count
           /\ merge_file_count >= 1 =>
                  Cardinality(DOMAIN mergers) <= merge_file_count - 1
    /\ (opc = "done" /\ Cardinality(DOMAIN sorters) >= 1) =>
           /\ Cardinality(DOMAIN mergers) = Cardinality(DOMAIN sorters) - 1
           /\ Len(output_file) = 1
           /\ Cardinality(DOMAIN sorters) = 1 =>
                  /\ DOMAIN mergers = {}
                  /\ accepted = output_file
                  /\ output_file[1] \in DOMAIN sorters

\* C4 witness: one sort worker, no merge worker, and the orchestrator has returned
C4_Witness ==
    /\ opc = "done"
    /\ Cardinality(DOMAIN sorters) = 1
    /\ DOMAIN mergers = {}
    /\ output_file = Some(0)

\* C5: on a closed queue every Put returns false and leaves the buffer as it
\* was, and a value a Put refused is never in the buffer nor returned by a Take.
C5_PutAfterCloseRejected ==
    /\ [](rejected \cap (Range(buffer_) \cup Range(removed)) = {})
    /\ [][\A t \in Clients :
              (is_closed_ /\ ClientPut(t)) =>
                  /\ putret'[t] = FALSE
                  /\ buffer_' = buffer_
                  /\ accepted' = accepted]_vars

\* C5 witness: a Put was refused with items still buffered, and the buffer was
\* then drained by Take
C5_Witness ==
    /\ \E t \in Clients : putret[t] = FALSE
    /\ rejected # {}
    /\ ~cancelled
    /\ atClose # <<>>
    /\ buffer_ = <<>>
    /\ Len(removed) = removedAtClose + Len(atClose)

\* the values Take removed since the queue was closed
RemovedSinceClose == SubSeq(removed, removedAtClose + 1, Len(removed))

\* C6: after Close and without Cancel, the Takes remove the items buffered at
\* Close time in FIFO order, each returning the head of the buffer; a Take on a
\* closed and empty queue returns nullopt at once, without waiting.
C6_CloseDrainsThenEmpty ==
    /\ []((is_closed_ /\ ~cancelled) =>
              /\ RemovedSinceClose \o buffer_ = atClose
              /\ waitset = {})
    /\ [][\A t \in Clients :
              (is_closed_ /\ ~cancelled /\ ClientTake(t)) =>
                  /\ qpc'[t] = "idle"
                  /\ ret'[t] = IF buffer_ = <<>> THEN nullopt
                               ELSE Some(Head(buffer_))]_vars

\* C6 witness: Close found two or more items, Takes by both clients removed
\* them all, and the queue is closed and empty
C6_Witness ==
    /\ is_closed_
    /\ ~cancelled
    /\ Len(atClose) >= 2
    /\ buffer_ = <<>>
    /\ RemovedSinceClose = atClose
    /\ \E t, u \in Clients :
           /\ ret[t] = Some(atClose[1])
           /\ ret[u] = Some(atClose[2])

\* C7: after Cancel the buffer is empty and stays empty, no Take removes
\* anything any more, and every thread that was inside Take when Cancel ran
\* returns nullopt.
C7_CancelDiscards ==
    /\ [](cancelled =>
              /\ buffer_ = <<>>
              /\ \A t \in blockedAtCancel : qpc[t] = "idle" => ret[t] = nullopt)
    /\ [][cancelled => removed' = removed]_vars

\* C7 witness: a thread was inside Take, woken, with items buffered when Cancel
\* ran, and it has returned nullopt
C7_Witness ==
    \E t \in racedAtCancel : qpc[t] = "idle" /\ ret[t] = nullopt

\* C8: the values removed are, in order, a prefix of the values accepted; as
\* long as no Cancel discarded anything, the buffer holds the rest in order.
C8_Fifo ==
    /\ IsPrefix(removed, accepted)
    /\ ~cancelled => removed \o buffer_ = accepted

\* C8 witness: three values accepted and removed, by Takes of different clients
C8_Witness ==
    /\ Len(removed) = 3
    /\ \E t, u \in Clients : t # u /\ ret[t] = Some(2) /\ ret[u] = Some(3)

\* C9: with an empty input no sorter and no merge worker is ever started and
\* the orchestrator never returns: it stays in the final Take.
C9_EmptyInputNeverReturns ==
    Len(input) = 0 =>
        /\ opc \in {"sort", "final"}
        /\ output_file = nullopt
        /\ DOMAIN sorters = {}
        /\ DOMAIN mergers = {}
        /\ accepted = <<>>

\* C9 witness: empty input, the main thread blocked in the final Take
C9_Witness ==
    /\ Len(input) = 0
    /\ opc = "final"
    /\ MainThread \in waitset

\* C10 as stated: the orchestrator calls Take only for the final identifier
\* (the merge workers would take their inputs themselves), so it is never in a
\* Take that feeds a merge worker, and a merge worker that has not run yet finds
\* its inputs still in the queue.
C10_OrchestratorTakesOnlyFinal ==
    /\ opc \notin {"take1", "take2"}
    /\ \A m \in DOMAIN mergers :
           mergers[m].pc = "start" =>
               {mergers[m].filename1, mergers[m].filename2} \cap Range(removed) = {}

\* C10 amended: the orchestrator itself takes the two inputs of every merge
\* worker before it starts the worker; merge workers take nothing. Its Takes
\* number two per merge worker started, one more while it holds a first input,
\* and one more for the final identifier: 2(N - 1) + 1 when it returns.
C10_OrchestratorTakesMergeInputs ==
    /\ \A m \in DOMAIN mergers :
           /\ mergers[m].filename1 \in Range(removed)
           /\ mergers[m].filename2 \in Range(removed)
           /\ mergers[m].filename1 # mergers[m].filename2
    /\ Len(removed) = 2 * Cardinality(DOMAIN mergers)
                        + (IF opc = "take2" THEN 1 ELSE 0)
                        + (IF opc = "done" THEN 1 ELSE 0)
    /\ opc = "done" => Len(removed) = 2 * (merge_file_count - 1) + 1

\* C10 witness: the main thread blocked in the second Take of a merge task while
\* an earlier merge worker has not yet put its run
C10_Witness ==
    /\ opc = "take2"
    /\ MainThread \in waitset
    /\ \E m \in DOMAIN mergers : mergers[m].pc = "start"

\* the sort runs a run is built from, one entry per contribution: a sort run is
\* built from itself, a merge run from the runs its two inputs are built from
RECURSIVE BuiltFrom(_)
BuiltFrom(f) ==
    IF f \in DOMAIN mergers
    THEN BuiltFrom(mergers[f].filename1) \o BuiltFrom(mergers[f].filename2)
    ELSE <<f>>

\* the identifiers put and not yet taken as input of a merge worker or returned
Unmerged ==
    Range(accepted) \ ({output_file[k] : k \in 1..Len(output_file)}
                       \cup {mergers[m].filename1 : m \in DOMAIN mergers}
                       \cup {mergers[m].filename2 : m \in DOMAIN mergers})

\* C11: whatever runs were paired, the identifier the final Take returns is the
\* root of the merge tree: it is built from every one of the N sort runs, each
\* exactly once, and no other run is left unmerged when it is returned.
C11_FinalIsMergeTreeRoot ==
    opc = "done" =>
        /\ Len(BuiltFrom(output_file[1])) = merge_file_count
        /\ Range(BuiltFrom(output_file[1])) = DOMAIN sorters
        /\ NoDuplicates(BuiltFrom(output_file[1]))
        /\ Unmerged = {}
        /\ merge_file_count > 1 => output_file[1] \in DOMAIN mergers

\* C11 witness: three sort runs, the final run built from a merge run (first
\* input) and a sort run put after it
C11_Witness ==
    /\ opc = "done"
    /\ merge_file_count = 3
    /\ mergers[output_file[1]].filename1 \in DOMAIN mergers
    /\ mergers[output_file[1]].filename2 \in DOMAIN sorters

Min(a, b) == IF a < b THEN a ELSE b

\* the input elements of the chunk at byte offset w
ChunkAt(w) ==
    SubSeq(input, w \div SizeofInt + 1,
           Min(Len(input), w \div SizeofInt + batch_size))

\* C12: the run a sort worker publishes for the chunk at element offset o holds
\* exactly the min(batch_size, length - o) elements of that chunk, ascending,
\* and nothing else.
C12_SortRunIsSortedChunk ==
    \A w \in DOMAIN sorters :
        sorters[w] # "start" =>
            /\ Len(files[w].data) = Min(batch_size, Len(input) - w \div SizeofInt)
            /\ IsAscending(files[w].data)
            /\ \A v \in 0..MaxVal :
                   Count(v, files[w].data) = Count(v, ChunkAt(w))

\* -------------------------------------------------------------- MergeSpec
\* MergeRoutine alone, as a function of its two input files: one merge task
\* <<filename1, filename2, id>> whose inputs are two complete (written and
\* closed) ascending runs of 0..MaxLen integers, negative ones included.

MergeVals == (0 - MaxVal)..MaxVal

\* the two input files' names and the task's id, as MergeBatchFiles gives them
\* to the first merge task over two sort runs
MergeIn1 == 0
MergeIn2 == SizeofInt
MergeId == 0 - 2

CompleteRuns == {s \in SeqsUpTo(MergeVals, MaxLen) : IsAscending(s)}

MergeInit ==
    /\ QueueInit
    /\ ClientsInit
    /\ input = <<>>
    /\ batch_size = 1
    /\ opc = "final"
    /\ i = 0
    /\ merge_file_count = 2
    /\ tasks_count = 0
    /\ id = MergeId
    /\ filename1 = MergeIn1
    /\ output_file = nullopt
    /\ sorters = [w \in {MergeIn1, MergeIn2} |-> "done"]
    /\ mergers = (MergeId :> [pc |-> "start", filename1 |-> MergeIn1,
                              filename2 |-> MergeIn2])
    /\ \E r1 \in CompleteRuns, r2 \in CompleteRuns :
           files = (MergeIn1 :> [data |-> r1, closed |-> TRUE])
                   @@ (MergeIn2 :> [data |-> r2, closed |-> TRUE])

MergeNext ==
    \/ \E m \in DOMAIN mergers : MergeRoutine(m)
    \/ \E m \in DOMAIN mergers : MergeRoutineExit(m)

MergeSpec == MergeInit /\ [][MergeNext]_vars

\* C13: given two complete ascending runs, the run MergeRoutine writes has the
\* sum of their lengths, holds every value with the sum of its multiplicities,
\* and is ascending; its name is put once.
C13_MergeIsAscendingUnion ==
    mergers[MergeId].pc # "start" =>
        /\ Len(files[MergeId].data)
               = Len(files[MergeIn1].data) + Len(files[MergeIn2].data)
        /\ \A v \in MergeVals :
               Count(v, files[MergeId].data)
                   = Count(v, files[MergeIn1].data) + Count(v, files[MergeIn2].data)
        /\ IsAscending(files[MergeId].data)
        /\ accepted = <<MergeId>>

\* C13 witness: a merge of <<0, 0>> with <<-1, 0, 1>>: the first input is
\* exhausted first, 0 occurs in both and twice in one
C13_Witness ==
    /\ mergers[MergeId].pc = "done"
    /\ files[MergeIn1].data = <<0, 0>>
    /\ files[MergeIn2].data = <<0 - 1, 0, 1>>
    /\ files[MergeId].data = <<0 - 1, 0, 0, 0, 1>>

\* ceil(a / b) for b > 0
CeilDiv(a, b) == (a + b - 1) \div b

\* C14: for an input of at least one integer, the count SortBatchFiles returns
\* is ceil(length / batch_size); it is the number of sort workers spawned, one
\* per chunk offset below the length and none at or beyond it; and each spawned
\* worker puts its identifier exactly once (none before it has run).
C14_RunCountIsCeil ==
    (opc # "sort" /\ Len(input) >= 1) =>
        /\ merge_file_count = CeilDiv(Len(input), batch_size)
        /\ Cardinality(DOMAIN sorters) = merge_file_count
        /\ DOMAIN sorters = {k * batch_bytes : k \in 0..(merge_file_count - 1)}
        /\ \A w \in DOMAIN sorters :
               /\ w < file_size
               /\ Count(w, accepted) = IF sorters[w] = "start" THEN 0 ELSE 1

\* C14 witness: three integers in batches of two: two workers, both have
\* published, and the last chunk is a short one
C14_Witness ==
    /\ Len(input) = 3
    /\ batch_size = 2
    /\ opc # "sort"
    /\ merge_file_count = 2
    /\ \A w \in DOMAIN sorters : sorters[w] = "done"
    /\ Count(0, accepted) = 1
    /\ Count(2 * SizeofInt, accepted) = 1

\* C15: the run identifiers of one pipeline run are pairwise distinct: the
\* merge workers started so far have the identifiers -2, -3, ... down to the
\* counter, one each; sort-run identifiers are the chunk byte offsets, none
\* negative; no identifier is put twice; and a run file is written by the one
\* worker that has its name, once that worker has run.
C15_IdentifiersDistinct ==
    /\ DOMAIN mergers = {0 - k : k \in 2..(0 - id)}
    /\ \A w \in DOMAIN sorters : w >= 0
    /\ \A m \in DOMAIN mergers : m < 0
    /\ DOMAIN sorters \cap DOMAIN mergers = {}
    /\ NoDuplicates(accepted)
    /\ Range(accepted) \subseteq DOMAIN sorters \cup DOMAIN mergers
    /\ DOMAIN files = {w \in DOMAIN sorters : sorters[w] # "start"}
                      \cup {m \in DOMAIN mergers : mergers[m].pc # "start"}
    /\ \A m \in DOMAIN mergers :
           /\ mergers[m].filename1 # m /\ mergers[m].filename2 # m
           /\ mergers[m].filename1 # mergers[m].filename2

\* C15 witness: three sort runs 0, 4, 8 and the two merge runs -2, -3, all
\* written and put
C15_Witness ==
    /\ DOMAIN sorters = {0, SizeofInt, 2 * SizeofInt}
    /\ DOMAIN mergers = {0 - 2, 0 - 3}
    /\ DOMAIN files = DOMAIN sorters \cup DOMAIN mergers
    /\ Len(accepted) = 5

\* a step in which a Take removes the head of the buffer
TakeRemovesHead ==
    /\ buffer_ # <<>>
    /\ buffer_' = Tail(buffer_)
    /\ removed' = Append(removed, Head(buffer_))

\* C16 as stated: both closed states are absorbing: once the queue is closed
\* the flag stays set and no operation changes the buffer except a Take that
\* removes its head; buffered items are never discarded by a later call.
C16_ClosedStatesAbsorbing ==
    [][is_closed_ =>
           /\ is_closed_'
           /\ (buffer_' = buffer_ \/ TakeRemovesHead)]_vars

\* C16 amended: the closed flag never returns to false, and Closed(cleared) is
\* absorbing (after a Cancel the buffer is and stays empty). Closed(drainable)
\* is left by a later Cancel, which discards what is buffered; Put, Close and
\* Take leave it, Put and Close without touching the buffer and Take by
\* removing the head.
C16_ClosedFlagAbsorbing ==
    /\ [](cancelled => is_closed_ /\ buffer_ = <<>>)
    /\ [][is_closed_ =>
              /\ is_closed_'
              /\ \A t \in Clients :
                     /\ ClientPut(t) => buffer_' = buffer_ /\ ~putret'[t]
                     /\ ClientClose(t) => buffer_' = buffer_
                     /\ ClientTake(t) => (buffer_' = buffer_ \/ TakeRemovesHead)
                     /\ ClientCancel(t) => buffer_' = <<>> /\ cancelled'
              /\ (~cancelled' => (buffer_' = buffer_ \/ TakeRemovesHead))]_vars

\* C16 witness: Close found items, a Take removed some of them, and a later
\* Cancel discarded the rest
C16_Witness ==
    /\ is_closed_
    /\ cancelled
    /\ RemovedSinceClose # <<>>
    /\ Len(RemovedSinceClose) < Len(atClose)
    /\ buffer_ = <<>>

\* -------------------------------------------------------------- QFairSpec
\* QSpec under fair scheduling, with a record of who was inside Take when the
\* queue was closed and when an item was put into the empty buffer.
\* Fairness: a thread that buffer_empty_.wait has released (notified or woken
\* spuriously) is runnable and is eventually scheduled, that is, it eventually
\* re-acquires the mutex and goes on with its Take. Nothing obliges a client to
\* call Put, Take, Close or Cancel, and no spurious wake-up is ever due.

WatchedPut(t) ==
    /\ PutCall(t)
    /\ IF /\ PutReturns /\ buffer_ = <<>>
          /\ \E u \in Clients : qpc[u] = "taking"
          /\ blockedAtPut = {} /\ servedSince = {}
       THEN blockedAtPut' = {u \in Clients : qpc[u] = "taking"}
       ELSE UNCHANGED blockedAtPut
    /\ UNCHANGED <<blockedAtClose, servedSince>>

WatchedTake(t) ==
    /\ TakeCall(t)
    /\ IF TakeWaits THEN UNCHANGED <<blockedAtPut, servedSince>>
       ELSE /\ blockedAtPut' = blockedAtPut \ {t}
            /\ servedSince' = IF t \in blockedAtPut /\ TakeReturns # nullopt
                              THEN servedSince \cup {t} ELSE servedSince
    /\ UNCHANGED blockedAtClose

WatchedClose(t) ==
    /\ CloseCall(t)
    /\ blockedAtClose' = IF is_closed_ THEN blockedAtClose
                         ELSE {u \in Clients : qpc[u] = "taking"}
    /\ UNCHANGED <<blockedAtPut, servedSince>>

WatchedCancel(t) ==
    /\ CancelCall(t)
    /\ blockedAtClose' = IF is_closed_ THEN blockedAtClose
                         ELSE {u \in Clients : qpc[u] = "taking"}
    /\ UNCHANGED <<blockedAtPut, servedSince>>

QFairNext ==
    \E t \in Clients :
        \/ WatchedPut(t)
        \/ WatchedTake(t)
        \/ WatchedClose(t)
        \/ WatchedCancel(t)
        \/ ClientWakeup(t)

\* thread t, released from the wait, goes on with its Take
TakeResumes(t) == qpc[t] = "taking" /\ WatchedTake(t)

QFairSpec ==
    /\ QInit
    /\ [][QFairNext]_vars
    /\ \A t \in Clients : WF_vars(TakeResumes(t))

\* C17: Close and Cancel wake every blocked consumer: no thread is left in the
\* wait on a closed queue; a Take that runs on a closed queue returns, with
\* nullopt if the buffer is empty; and under fair scheduling every thread that
\* was inside Take when the queue was closed, and every thread inside Take on
\* a closed queue, eventually returns.
C17_CloseWakesAll ==
    /\ [](is_closed_ => waitset = {})
    /\ [][\A t \in Clients :
              (is_closed_ /\ WatchedTake(t)) =>
                  /\ qpc'[t] = "idle"
                  /\ buffer_ = <<>> => ret'[t] = nullopt]_vars
    /\ \A t \in Clients : (t \in blockedAtClose) ~> (qpc[t] = "idle")
    /\ \A t \in Clients : (is_closed_ /\ qpc[t] = "taking") ~> (qpc[t] = "idle")

\* C17 witness: two threads were blocked in Take when a third called Close;
\* both have returned, empty
C17_Witness ==
    /\ ~cancelled
    /\ Cardinality(blockedAtClose) >= 2
    /\ atClose = <<>>
    /\ \A t \in blockedAtClose : qpc[t] = "idle" /\ ret[t] = nullopt

\* the threads inside Take that are not in the wait: notified or woken, they
\* have still to re-acquire the mutex
AwakeTakers == {t \in Clients : qpc[t] = "taking" /\ t \notin waitset}

\* under fair scheduling the buffer does not stay non-empty for ever while a
\* consumer stays inside Take
NoLostWakeup ==
    \A t \in Clients :
        (buffer_ # <<>> /\ qpc[t] = "taking") ~> (buffer_ = <<>> \/ qpc[t] = "idle")

\* C18 as stated: no wake-up is lost, and when an item is put into the empty
\* buffer of an open queue while consumers are blocked in Take, the Take call of
\* one of those consumers eventually returns an item (unless the queue is
\* closed meanwhile).
C18_BlockedConsumersServed ==
    /\ NoLostWakeup
    /\ (blockedAtPut # {} /\ servedSince = {}) ~> (servedSince # {} \/ is_closed_)

\* C18 amended: no wake-up is lost: while a thread is in the wait of an open
\* queue, every buffered item has a thread released from the wait that has yet
\* to run, so under fair scheduling the buffer does not stay non-empty while a
\* consumer stays inside Take. Which Take call gets an item is not fixed: a
\* Take by a thread that was not blocked may remove it first, and the consumer
\* that was woken for it then waits again.
C18_NoLostWakeup ==
    /\ []((~is_closed_ /\ waitset # {}) => Len(buffer_) <= Cardinality(AwakeTakers))
    /\ [][\A t \in Clients :
              (WatchedPut(t) /\ PutReturns /\ waitset # {}) =>
                  Cardinality(waitset') = Cardinality(waitset) - 1]_vars
    /\ NoLostWakeup

\* C18 witness: an item was put while a consumer was blocked, a Take called
\* later by another thread removed it, and the consumer that was woken for it
\* is in the wait again, on an open queue with an empty buffer
C18_Witness ==
    /\ ~is_closed_
    /\ servedSince = {}
    /\ blockedAtPut # {}
    /\ blockedAtPut \subseteq waitset
    /\ buffer_ = <<>>
    /\ Len(removed) = 1

\* C19: in the pipeline the queue is never closed: the closed flag is never
\* set, no Put of a sort or merge worker is refused, and no Take of the
\* orchestrator returns nullopt (which it would dereference).
C19_PipelineNeverCloses ==
    /\ ~is_closed_
    /\ rejected = {}
    /\ opc # "ub"
    /\ Len(accepted) = Cardinality({w \in DOMAIN sorters : sorters[w] # "start"})
                       + Cardinality({m \in DOMAIN mergers : mergers[m].pc # "start"})
    /\ output_file # nullopt => output_file = Some(removed[Len(removed)])

\* C19 witness: two sort workers and one merge worker have put, the
\* orchestrator has taken all three names and returned the last
C19_Witness ==
    /\ opc = "done"
    /\ ~is_closed_
    /\ Len(accepted) = 3
    /\ removed = accepted

\* ------------------------------------------------------------ LenFairSpec
\* LenSpec under fair scheduling with no worker failing: the main thread goes
\* on whenever it is not in the wait, and a detached thread that has been
\* started eventually runs its routine. No spurious wake-up is ever due.

\* a step of the main thread other than a spurious wake-up
MainStep ==
    \/ SortBatchFilesSpawn
    \/ SortBatchFilesReturn
    \/ MergeBatchFilesTake1
    \/ MergeBatchFilesTake2
    \/ MergeBatchFilesReturn

LenFairSpec ==
    /\ LenInit
    /\ [][Next]_vars
    /\ WF_vars(MainStep)
    /\ WF_vars(\E w \in DOMAIN sorters : SorterRoutine(w))
    /\ WF_vars(\E m \in DOMAIN mergers : MergeRoutine(m))

\* the orchestrator has returned: all its 2(N-1)+1 Takes have returned and the
\* N-1 merge workers have been started and have published
PipelineCompleted ==
    /\ opc = "done"
    /\ output_file # nullopt
    /\ Len(removed) = 2 * (merge_file_count - 1) + 1
    /\ Cardinality(DOMAIN mergers) = merge_file_count - 1
    /\ \A m \in DOMAIN mergers : mergers[m].pc # "start" /\ Count(m, accepted) = 1

\* C20: for an input of at least one integer (N >= 1 sort workers), under fair
\* scheduling the orchestrator eventually returns the terminal identifier, all
\* its Takes having returned and all N-1 merge workers having published.
C20_PipelineTerminates == (Len(input) >= 1) ~> PipelineCompleted

\* C20 witness: three sort workers, two merge workers, everything has run and
\* the orchestrator has returned
C20_Witness ==
    /\ PipelineCompleted
    /\ merge_file_count = 3
    /\ \A w \in DOMAIN sorters : sorters[w] = "done"
    /\ \A m \in DOMAIN mergers : mergers[m].pc = "done"

=============================================================================
